---- MODULE Spec2Model ----
(***************************************************************************)
(* A model of the News-Agent selection pipeline: the feed fetcher          *)
(* (src/src/feeds/fetcher.py), the heuristic enrichment and orchestration  *)
(* of NewsAgent.run (src/src/agent/news_agent.py) and the article ranker   *)
(* (src/src/ranking/ranker.py).                                            *)
(*                                                                         *)
(* Time is counted in whole hours.  Scores are fixed-point integers in     *)
(* units of 1/120 (so 0.5 is 60 and 1/24 is 5); weights are counted in     *)
(* tenths, so a final score is in units of 1/1200.  Arithmetic is exact.   *)
(***************************************************************************)
EXTENDS Integers, Sequences, FiniteSets, TLC

\* ------------------------------------------------------------------ bounds

\* Number of feeds of the registry that the modelled fetcher is built with.
NumFeeds == 2
\* Most entries one feed document holds.
MaxEntries == 3
\* Largest top_n an agent is constructed with (the smallest is one less).
MaxTopN == 3
\* Longest argument list handed to a directly called function.
MaxLen == 3
\* The oldest publication scored directly, in hours before the clock.
MaxHoursAgo == 130
\* The largest number of articles given to a batch operation.
MaxBatch == 6

\* ------------------------------------------------------- program constants

\* news_agent.py:120, filter_today_articles(raw_articles, days=7)
WindowDays == 7
\* news_agent.py:140, today_articles[:100]
EnrichCap == 100
\* news_agent.py:172, source_counts.get(article.source, 0) < 2
RunMaxPerSource == 2
\* Score unit: the integer that stands for 1.0 (a multiple of 2, 10 and 24)
One == 12 * 10
\* news_agent.py:69, score = 5.0
BaseImportance == 5 * One
\* news_agent.py:80, score += 0.5
KeywordBoost == One \div 2
\* news_agent.py:83, min(10.0, score)
MaxImportance == 10 * One
\* ranker.py:64, penalty += 2.0
SourcePenalty == 2 * One
\* ranker.py:68, penalty += 1.0
CategoryPenalty == 1 * One
\* fetcher.py:160, timedelta(days=days), in hours
HoursPerDay == 24

\* --------------------------------------------------------------- helpers

Min(a, b) == IF a <= b THEN a ELSE b
Max(a, b) == IF a >= b THEN a ELSE b

\* All sequences over S of length 0..n.
SeqsUpTo(S, n) == UNION {[1..k -> S] : k \in 0..n}

\* The elements of s at the positions idx, in the order of idx.
Pick(s, idx) == [k \in DOMAIN idx |-> s[idx[k]]]

RECURSIVE Concat(_)
Concat(ss) == IF ss = <<>> THEN <<>> ELSE Head(ss) \o Concat(Tail(ss))

Range(s) == {s[i] : i \in DOMAIN s}

\* The numbers of the set S, in increasing order.
RECURSIVE Ascending(_)
Ascending(S) ==
    IF S = {} THEN <<>>
    ELSE LET m == CHOOSE x \in S : \A y \in S : x <= y
         IN <<m>> \o Ascending(S \ {m})

\* ------------------------------------------------------------ feed registry

\* sources.py TECH_FEEDS: the names of the first feeds of the registry.
TECH_FEEDS == <<"TechCrunch", "The Verge", "Ars Technica", "Hacker News">>
\* FeedFetcher.__init__: self.feeds, here the first NumFeeds of the registry.
Feeds == 1..NumFeeds
FeedName(f) == TECH_FEEDS[f]

\* ------------------------------------------------------------ feed fetcher

\* A title is modelled by the set of lower-case terms that occur in it; the
\* empty set is the empty (or all-blank) title.
NoTitle == {}
\* The link of an entry without one.
NoLink == [site |-> "", path |-> ""]
\* A feed entry without any usable date field.
NoDate == 0 - 1

\* FeedFetcher._parse_date: the entry's date, None (NoDate) when it has none.
ParseDate(entry) == entry.date

\* A variant of ParseEntry that keeps an entry without a link.
ParseEntryKeepsNoLink(entry, f, clock) ==
    IF entry.title = NoTitle THEN <<>>
    ELSE <<[title     |-> entry.title,
            url       |-> entry.link,
            source    |-> FeedName(f),
            published |-> IF ParseDate(entry) = NoDate THEN clock
                                                      ELSE ParseDate(entry)]>>

\* FeedFetcher._parse_entry: a RawArticle, or None (<<>>) for a dropped entry.
ParseEntry(entry, f, clock) ==
    IF entry.title = NoTitle THEN <<>>
    ELSE IF entry.link = NoLink THEN <<>>
    ELSE <<[title     |-> entry.title,
            url       |-> entry.link,
            source    |-> FeedName(f),
            published |-> IF ParseDate(entry) = NoDate THEN clock
                                                      ELSE ParseDate(entry)]>>

\* The loop of fetch_feed over parsed.entries: the articles of the entries
\* kept.  A list of several entries is run as its two halves, one after the
\* other.
RECURSIVE ParseEntries(_, _, _)
ParseEntries(entries, f, clock) ==
    IF entries = <<>> THEN <<>>
    ELSE IF Len(entries) = 1 THEN ParseEntry(entries[1], f, clock)
    ELSE LET mid == Len(entries) \div 2
         IN ParseEntries(SubSeq(entries, 1, mid), f, clock)
            \o ParseEntries(SubSeq(entries, mid + 1, Len(entries)), f, clock)

\* FeedFetcher.fetch_feed, given the outcome of the request: the parsed
\* articles of a 200 response, no article for any other outcome.
FetchFeedResult(resp, f, clock) ==
    IF resp.kind = "ok" THEN ParseEntries(resp.entries, f, clock) ELSE <<>>
\* A variant of FilterKeeps that drops the article published at the cutoff.
FilterKeepsAfterCutoff(article, days, clock) ==
    article.published > clock - days * HoursPerDay

\* FeedFetcher.filter_today_articles: cutoff = now - days, keep published >= cutoff.
FilterKeeps(article, days, clock) ==
    article.published >= clock - days * HoursPerDay

FilterTodayArticles(articles, days, clock) ==
    SelectSeq(articles, LAMBDA a : FilterKeeps(a, days, clock))

\* FeedFetcher.deduplicate: seen_urls when the loop reaches position i.  Every
\* article the loop has passed left its url in the set, added then (173) or
\* there already (172).
SeenUrls(articles, i) == {articles[j].url : j \in 1..(i - 1)}

\* fetcher.py:171-174: the positions of the articles the loop appends.
DedupFrom(articles) ==
    SelectSeq([i \in DOMAIN articles |-> i],
              LAMBDA i : articles[i].url \notin SeenUrls(articles, i))
\* A variant of Deduplicate that keeps the last occurrence of each url.
DeduplicateKeepLast(articles) ==
    Pick(articles, Ascending({i \in DOMAIN articles :
                                \A j \in DOMAIN articles :
                                    j > i => articles[j].url # articles[i].url}))

Deduplicate(articles) == Pick(articles, DedupFrom(articles))

\* ------------------------------------------------------ heuristic enricher

\* news_agent.py:74-76, important_keywords, in list order.
ImportantKeywords ==
    <<"ai", "artificial intelligence", "breakthrough", "launch", "announce",
      "release", "new", "first", "major", "billion", "google", "apple",
      "microsoft", "openai", "meta", "amazon">>

\* `keyword in title_lower` is a substring test: a keyword occurs in a title
\* when it is a substring of one of the title's terms.  Among the terms used
\* here the proper-substring pairs are ai < openai and app < apple.
Occurs(keyword, term) ==
    \/ keyword = term
    \/ keyword = "ai" /\ term = "openai"
    \/ keyword = "app" /\ term = "apple"

TitleContains(title, keyword) == \E term \in title : Occurs(keyword, term)

\* NewsAgent._calculate_importance: the loop over important_keywords from
\* position i with the running score, then the cap.
RECURSIVE ImportanceLoop(_, _, _)
ImportanceLoop(title, i, score) ==
    IF i > Len(ImportantKeywords) THEN score
    ELSE ImportanceLoop(title, i + 1,
            IF TitleContains(title, ImportantKeywords[i])
            THEN score + KeywordBoost ELSE score)
\* A variant of CalculateImportance without the cap.
CalculateImportanceNoCap(title) == ImportanceLoop(title, 1, BaseImportance)

CalculateImportance(title) ==
    Min(MaxImportance, ImportanceLoop(title, 1, BaseImportance))

\* news_agent.py:89-97, the ordered category table.
Categories ==
    << [name |-> "AI/ML",
        keywords |-> {"ai", "artificial intelligence", "machine learning", "gpt",
                      "llm", "chatgpt", "neural"}],
       [name |-> "Startups",
        keywords |-> {"startup", "funding", "venture", "seed", "series a",
                      "series b", "valuation"}],
       [name |-> "Gadgets",
        keywords |-> {"phone", "iphone", "android", "laptop", "tablet",
                      "wearable", "headphone"}],
       [name |-> "Gaming",
        keywords |-> {"game", "gaming", "playstation", "xbox", "nintendo", "steam"}],
       [name |-> "Space",
        keywords |-> {"space", "nasa", "spacex", "rocket", "satellite", "mars", "moon"}],
       [name |-> "Security",
        keywords |-> {"security", "hack", "breach", "privacy", "cyber", "ransomware"}],
       [name |-> "Software",
        keywords |-> {"app", "software", "update", "feature", "version"}] >>

\* NewsAgent._categorize_article: the first category of the table one of whose
\* keywords occurs in the title, "Tech" when there is none.
RECURSIVE CategorizeFrom(_, _)
CategorizeFrom(title, i) ==
    IF i > Len(Categories) THEN "Tech"
    ELSE IF \E k \in Categories[i].keywords : TitleContains(title, k)
         THEN Categories[i].name
         ELSE CategorizeFrom(title, i + 1)

CategorizeArticle(title) == CategorizeFrom(title, 1)

\* news_agent.py:141-150, the ArticleSummary built from one RawArticle.
EnrichArticle(article) ==
    [title            |-> article.title,
     url              |-> article.url,
     source           |-> article.source,
     published        |-> article.published,
     importance_score |-> CalculateImportance(article.title),
     category         |-> CategorizeArticle(article.title)]

\* ----------------------------------------------------------- article ranker

\* ArticleRanker.__init__ with its default weights, in tenths.
DefaultRanker == [recency_weight |-> 2, importance_weight |-> 6, diversity_weight |-> 2]

\* ranker.py:25-36: the time a published value stands for.  A datetime is
\* taken as it is; of a string the first 19 characters are tried against
\* "%Y-%m-%d %H:%M:%S", "%Y-%m-%dT%H:%M:%S" and "%Y-%m-%d": a string that
\* starts with date and time to the second parses to that time, a string
\* that is a date alone to the midnight of that date, and a date with a time
\* without seconds, or any other text, is parsed by none.
ParsePublished(value) ==
    IF value.kind \in {"datetime", "seconds"} THEN value.time
    ELSE IF value.kind = "date" THEN (value.time \div HoursPerDay) * HoursPerDay
    ELSE NoDate

\* A variant of CalculateRecencyScore whose steps exclude their upper ends.
CalculateRecencyScoreStrict(published, clock) ==
    IF published = NoDate THEN 5 * One
    ELSE LET hours_ago == clock - published IN
         IF hours_ago < 1 THEN 10 * One
         ELSE IF hours_ago < 6 THEN 9 * One
         ELSE IF hours_ago < 12 THEN 7 * One
         ELSE IF hours_ago < 24 THEN 5 * One
         ELSE Max(One, 5 * One - ((hours_ago - 24) * One) \div HoursPerDay)

\* ArticleRanker.calculate_recency_score from the parsed time on; NoDate is a
\* published value that none of the formats parses.
CalculateRecencyScore(published, clock) ==
    IF published = NoDate THEN 5 * One
    ELSE LET hours_ago == clock - published IN
         IF hours_ago <= 1 THEN 10 * One
         ELSE IF hours_ago <= 6 THEN 9 * One
         ELSE IF hours_ago <= 12 THEN 7 * One
         ELSE IF hours_ago <= 24 THEN 5 * One
         ELSE Max(One, 5 * One - ((hours_ago - 24) * One) \div HoursPerDay)
\* A variant of CalculateDiversityPenalty that forgets the source penalty.
RECURSIVE DiversityPenaltyCategoryOnly(_, _)
DiversityPenaltyCategoryOnly(article, selected) ==
    IF selected = <<>> THEN 0
    ELSE (IF article.category = Head(selected).category THEN CategoryPenalty ELSE 0)
         + DiversityPenaltyCategoryOnly(article, Tail(selected))

\* ArticleRanker.calculate_diversity_penalty: the loop over selected.
RECURSIVE CalculateDiversityPenalty(_, _)
CalculateDiversityPenalty(article, selected) ==
    IF selected = <<>> THEN 0
    ELSE (IF article.source = Head(selected).source THEN SourcePenalty ELSE 0)
         + (IF article.category = Head(selected).category THEN CategoryPenalty ELSE 0)
         + CalculateDiversityPenalty(article, Tail(selected))

\* The weighted sum of calculate_final_score before its clamp.
WeightedScore(ranker, article, selected, clock) ==
    ranker.importance_weight * article.importance_score
    + ranker.recency_weight * CalculateRecencyScore(article.published, clock)
    - ranker.diversity_weight * CalculateDiversityPenalty(article, selected)

\* A variant of CalculateFinalScore without the clamp at 0.
CalculateFinalScoreUnclamped(ranker, article, selected, clock) ==
    WeightedScore(ranker, article, selected, clock)

\* ArticleRanker.calculate_final_score, in units of 1/1200.
CalculateFinalScore(ranker, article, selected, clock) ==
    Max(0, WeightedScore(ranker, article, selected, clock))

\* ranker.py:116-123, the scan of remaining (a sequence of positions of
\* summaries) from position i: the position in remaining of the first
\* candidate whose score is strictly above every earlier one.
RECURSIVE BestIdxFrom(_, _, _, _, _, _, _)
BestIdxFrom(ranker, summaries, remaining, selected, clock, i, best) ==
    IF i > Len(remaining) THEN best.idx
    ELSE LET score == CalculateFinalScore(ranker, summaries[remaining[i]],
                                          Pick(summaries, selected), clock)
         IN BestIdxFrom(ranker, summaries, remaining, selected, clock, i + 1,
                        IF score > best.score THEN [score |-> score, idx |-> i]
                                              ELSE best)

BestIdx(ranker, summaries, remaining, selected, clock) ==
    BestIdxFrom(ranker, summaries, remaining, selected, clock, 1,
                [score |-> -1, idx |-> 1])

RemoveAt(s, i) == SubSeq(s, 1, i - 1) \o SubSeq(s, i + 1, Len(s))

\* ranker.py:114-126, the while loop of get_top_n over positions.
RECURSIVE TopNLoop(_, _, _, _, _, _)
TopNLoop(ranker, summaries, n, clock, selected, remaining) ==
    IF Len(selected) < n /\ remaining # <<>>
    THEN LET b == BestIdx(ranker, summaries, remaining, selected, clock)
         IN TopNLoop(ranker, summaries, n, clock,
                     Append(selected, remaining[b]), RemoveAt(remaining, b))
    ELSE selected

\* ArticleRanker.get_top_n, as the positions of summaries it returns in
\* order: the whole pool as it stands when it holds n articles or fewer.
GetTopNIdx(ranker, summaries, n, clock) ==
    IF Len(summaries) <= n THEN [i \in 1..Len(summaries) |-> i]
    ELSE TopNLoop(ranker, summaries, n, clock, <<>>, [i \in 1..Len(summaries) |-> i])

GetTopN(ranker, summaries, n, clock) ==
    Pick(summaries, GetTopNIdx(ranker, summaries, n, clock))

\* A variant of ImportanceOrder that puts the later of two articles of equal
\* score first.
ImportanceOrderLaterFirst(summaries, i, j) ==
    \/ summaries[i].importance_score > summaries[j].importance_score
    \/ /\ summaries[i].importance_score = summaries[j].importance_score
       /\ i > j

\* sorted(summaries, key=importance_score, reverse=True) and list.sort with the
\* same arguments put the higher score first and, the sort being stable,
\* keep articles of equal score in their order: position i comes before
\* position j.
ImportanceOrder(summaries, i, j) ==
    \/ summaries[i].importance_score > summaries[j].importance_score
    \/ /\ summaries[i].importance_score = summaries[j].importance_score
       /\ i < j

\* The sorted list, as positions of summaries.
SortedByImportanceIdx(summaries) ==
    SortSeq([i \in DOMAIN summaries |-> i],
            LAMBDA i, j : ImportanceOrder(summaries, i, j))

SortByImportance(summaries) == Pick(summaries, SortedByImportanceIdx(summaries))

\* source_counts (a defaultdict(int), or dict.get(source, 0)) as a function
\* on the sources counted so far.
CountOf(source_counts, source) ==
    IF source \in DOMAIN source_counts THEN source_counts[source] ELSE 0

Increment(source_counts, source) ==
    [s \in DOMAIN source_counts \cup {source} |->
        IF s = source THEN CountOf(source_counts, source) + 1 ELSE source_counts[s]]

\* ranker.py:96-104, ArticleRanker.rank: the score of each article with
\* nothing selected, and a stable sort by it, higher first; as the positions
\* of summaries in the order returned.
RankOrder(ranker, summaries, clock, i, j) ==
    LET score(k) == CalculateFinalScore(ranker, summaries[k], <<>>, clock) IN
    \/ score(i) > score(j)
    \/ score(i) = score(j) /\ i < j

RankIdx(ranker, summaries, clock) ==
    SortSeq([i \in DOMAIN summaries |-> i],
            LAMBDA i, j : RankOrder(ranker, summaries, clock, i, j))

\* A variant of UnderSourceLimit that is off by one.
UnderSourceLimitInclusive(source_counts, source, max_per_source) ==
    CountOf(source_counts, source) <= max_per_source

\* ranker.py:146 and news_agent.py:172: the source limit test.
UnderSourceLimit(source_counts, source, max_per_source) ==
    CountOf(source_counts, source) < max_per_source

\* ranker.py:141-148, the loop of ensure_source_diversity over the sorted
\* positions from position i.
RECURSIVE DiversityLoop(_, _, _, _, _, _, _)
DiversityLoop(summaries, sorted, n, max_per_source, i, selected, source_counts) ==
    IF i > Len(sorted) \/ Len(selected) >= n THEN selected
    ELSE LET source == summaries[sorted[i]].source IN
         IF UnderSourceLimit(source_counts, source, max_per_source)
         THEN DiversityLoop(summaries, sorted, n, max_per_source, i + 1,
                            Append(selected, sorted[i]),
                            Increment(source_counts, source))
         ELSE DiversityLoop(summaries, sorted, n, max_per_source, i + 1,
                            selected, source_counts)

\* ArticleRanker.ensure_source_diversity, as the positions of summaries it
\* returns in order.
EnsureSourceDiversityIdx(summaries, n, max_per_source) ==
    DiversityLoop(summaries, SortedByImportanceIdx(summaries), n, max_per_source,
                  1, <<>>, <<>>)

EnsureSourceDiversity(summaries, n, max_per_source) ==
    Pick(summaries, EnsureSourceDiversityIdx(summaries, n, max_per_source))

\* summarizer.py:169, max_concurrent: int = 3
MaxConcurrentSummarize == 3
\* article_parser.py:140, max_concurrent: int = 5
MaxConcurrentParse == 5

\* ------------------------------------------------------- key points (rule)

\* news_agent.py:65, sentences[:3]
MaxKeyPoints == 3
\* news_agent.py:63, len(s.strip()) > 20
MinSentenceLength == 20

\* news_agent.py:62-63: the sentences kept, in order.  A summary text is given
\* by the pieces the split at '.' cuts it into, each piece by its length once
\* stripped.
RECURSIVE LongSentences(_)
LongSentences(pieces) ==
    IF pieces = <<>> THEN <<>>
    ELSE LET rest == LongSentences(Tail(pieces))
         IN IF Head(pieces) > 0 /\ Head(pieces) > MinSentenceLength
            THEN <<Head(pieces)>> \o rest
            ELSE rest

\* news_agent.py:56-65, _extract_key_points: the first three sentences longer
\* than 20 characters; none for an empty summary.
ExtractKeyPoints(pieces) ==
    IF pieces = <<>> THEN <<>>
    ELSE LET sentences == LongSentences(pieces)
         IN SubSeq(sentences, 1, Min(MaxKeyPoints, Len(sentences)))

\* ----------------------------------------------------------- AI summarizer

\* summarizer.py:87, article.content[:3000]
ContentLimit == 3000
\* summarizer.py:87, article.summary[:1000]
SummaryLimit == 1000
\* summarizer.py:132, content[:200]
FallbackLimit == 200
\* summarizer.py:98, 120, 134, 152: the default importance score 5.0
DefaultScore == 5 * One
\* summarizer.py:99, 121, 135, 153
DefaultCategory == "Tech"

\* A string: what it says and its length in characters.
Text(id, len) == [id |-> id, len |-> len]
EmptyText == Text("", 0)
\* s[:n]
Truncate(s, n) == IF s.len <= n THEN s ELSE Text(s.id, n)
\* s or t
OrElse(s, t) == IF s.len = 0 THEN t ELSE s
\* summarizer.py:96
NoSummaryAvailable == Text("No summary available.", 21)

\* A member of the JSON object of a response: absent, or a value of a JSON
\* type.  A number is in units of 1/One; a string holds a text, and for the
\* score the number it spells, if it spells one; a list holds its items.
Member(type, num, str, items) ==
    [type |-> type, num |-> num, str |-> str, items |-> items]
Missing == Member("missing", 0, EmptyText, <<>>)
JsonNull == Member("null", 0, EmptyText, <<>>)
JsonNumber(v) == Member("number", v, EmptyText, <<>>)
\* a string that spells the number v
JsonNumeral(v) == Member("numeral", v, EmptyText, <<>>)
JsonString(s) == Member("string", 0, s, <<>>)
JsonList(items) == Member("list", 0, EmptyText, items)

\* dict.get(key, default)
Get(member, default) == IF member.type = "missing" THEN default ELSE member

\* summarizer.py:138-166, _parse_summary_response.  A response text is given
\* by its shape and by the four members it spells out:
\*   "object"  its first innermost {...} span is a JSON object (143-145);
\*   "scalar"  it has no such span and is JSON of another type (146);
\*   "broken"  neither parses: the members are searched with the two regular
\*             expressions of 157 and 162, which find a non-empty summary
\*             string and a score written as an unsigned number.
\* The result: the parsed dict, or the value that is not a dict.
ParseSummaryResponse(text) ==
    CASE text.shape = "object" ->
            [dict |-> TRUE, summary |-> text.summary, key_points |-> text.key_points,
             importance_score |-> text.importance_score, category |-> text.category]
      [] text.shape = "scalar" ->
            [dict |-> FALSE, summary |-> Missing, key_points |-> Missing,
             importance_score |-> Missing, category |-> Missing]
      [] OTHER ->
            [dict |-> TRUE,
             summary |-> IF text.summary.type = "string" /\ text.summary.str.len > 0
                         THEN text.summary ELSE JsonString(EmptyText),
             key_points |-> JsonList(<<>>),
             importance_score |->
                 IF text.importance_score.type = "number" /\ text.importance_score.num >= 0
                 THEN text.importance_score ELSE JsonNumber(DefaultScore),
             category |-> JsonString(Text(DefaultCategory, 4))]

\* float(x) raises for None, a list and a string that spells no number.
FloatRaises(member) == member.type \notin {"number", "numeral"}

\* summarizer.py:113-122 raise: parsed is no dict (parsed.get), or float() fails.
SummaryFromResponseRaises(parsed) ==
    \/ ~parsed.dict
    \/ FloatRaises(Get(parsed.importance_score, JsonNumber(DefaultScore)))

\* The article's own fields, carried over by every path (92-95, 114-117, 128-131).
Summary(article, summary, key_points, importance_score, category) ==
    [title |-> article.title, url |-> article.url, source |-> article.source,
     published |-> article.published, summary |-> summary,
     key_points |-> key_points, importance_score |-> importance_score,
     category |-> category]

\* ArticleSummary.__post_init__ (summarizer.py:24-26): key_points None becomes [].
KeyPointsOf(member) == IF member.type = "null" THEN <<>> ELSE member.items

\* summarizer.py:113-122: the summary built from the parsed response.
SummaryFromResponse(article, parsed) ==
    Summary(article,
            Get(parsed.summary, JsonString(article.summary)).str,
            KeyPointsOf(Get(parsed.key_points, JsonList(<<>>))),
            Get(parsed.importance_score, JsonNumber(DefaultScore)).num,
            Get(parsed.category, JsonString(Text(DefaultCategory, 4))).str.id)

\* summarizer.py:87
ContentOf(article) ==
    IF article.content.len > 0 THEN Truncate(article.content, ContentLimit)
    ELSE Truncate(article.summary, SummaryLimit)

\* summarizer.py:127-136
FallbackSummary(article) ==
    Summary(article,
            OrElse(article.summary, Truncate(ContentOf(article), FallbackLimit)),
            <<>>, DefaultScore, DefaultCategory)

\* summarizer.py:84-136, summarize, for an outcome of client.generate: no
\* text (None or ""), an exception, or a text.
Summarize(article, outcome) ==
    IF ContentOf(article).len = 0
    THEN Summary(article, OrElse(article.summary, NoSummaryAvailable),
                 <<>>, DefaultScore, DefaultCategory)
    ELSE IF outcome.kind = "text"
            /\ ~SummaryFromResponseRaises(ParseSummaryResponse(outcome.text))
         THEN SummaryFromResponse(article, ParseSummaryResponse(outcome.text))
         ELSE FallbackSummary(article)


\* summarizer.py:206-207, the indices of the response that lie within
\* 0..len(summaries)-1, in the order of the response.
ValidIndices(indices, summaries) ==
    SelectSeq(indices, LAMBDA i : 0 <= i /\ i < Len(summaries))

\* summarizer.py:213-219, the fallback: the 0-based positions of the first n
\* summaries in importance order.
RankFallback(summaries, n) ==
    [k \in 1..Min(n, Len(summaries)) |-> SortedByImportanceIdx(summaries)[k] - 1]

\* summarizer.py:186-221, rank_articles, for an outcome of client.generate.
\* A response text is given by its shape ("object" when the pattern finds a
\* JSON object in it that json.loads accepts) and by its member top_indices:
\* a list of integers, null, or missing; iterating null raises, and the
\* handler leads to the fallback.
RankArticles(summaries, n, outcome) ==
    IF Len(summaries) <= n THEN [k \in 1..Len(summaries) |-> k - 1]
    ELSE IF /\ outcome.kind = "text"
            /\ outcome.text.shape = "object"
            /\ outcome.text.top_indices.type \in {"missing", "list"}
            /\ Len(ValidIndices(outcome.text.top_indices.items, summaries)) >= n
         THEN SubSeq(ValidIndices(outcome.text.top_indices.items, summaries), 1, n)
         ELSE RankFallback(summaries, n)

\* ------------------------------------------------------------------- state

VARIABLES
    top_n,          \* NewsAgent.top_n
    callback,       \* the progress_callback given to run: "none" or "given"
    clock,          \* datetime.now(), in hours
    stage,          \* the position of run: START .. DONE
    task,           \* per feed, its fetch_feed task: "unstarted", "running", "done"
    started,        \* per feed, the number of fetch_feed tasks created for it
    response,       \* per feed, the outcome of its request
    task_result,    \* per feed, the list its fetch_feed task returned
    raw_articles,   \* run: raw_articles
    today_articles, \* run: today_articles
    summaries,      \* run: summaries
    top_articles,   \* run: top_articles
    source_counts,  \* run: source_counts
    cursor,         \* run: the position of `for article in summaries`
    result,         \* the DailySummary run returned, <<>> before
    raised,         \* an exception left run
    cb_calls,       \* the number of progress_callback invocations so far
    call,           \* a direct call of one function: its name and arguments
    ret,            \* what the direct call returned
    returned,       \* the direct call has returned
    passed,         \* the list object passed to the direct call, as it is now
    same_list,      \* the direct call returned the list object passed to it
    semaphore,      \* batch: the semaphore, its value and its queue of waiters
    batch_tasks,    \* batch: where each task of the gather stands
    batch_results,  \* batch: what each finished task returned, <<>> before
    finished        \* fetch_all_feeds called directly: the feeds whose task
                    \* has ended, in the order the tasks ended

agent_vars == <<top_n, callback, clock, stage, task, started, response, task_result,
                raw_articles, today_articles, summaries, top_articles,
                source_counts, cursor, result, raised, cb_calls>>
batch_vars == <<semaphore, batch_tasks, batch_results>>
call_vars == <<call, ret, returned, passed, same_list, batch_vars, finished>>
vars == <<agent_vars, call_vars>>

Stages == <<"START", "FETCHING", "FILTERING", "ENRICHING", "RANKING", "DONE">>
StageNo(s) == CHOOSE i \in DOMAIN Stages : Stages[i] = s

\* ------------------------------------------------------ the feeds' answers

\* The time of the run and the dates feed entries carry: outside the 7-day
\* window, and inside it.
RunClock == 8 * HoursPerDay + 8
DateOld == RunClock - 8 * HoursPerDay
DateFresh == RunClock - 10

\* A url: the site it points to and a path there.  Every feed links to two
\* articles of its own site, and any feed may link to the syndicated article.
Url(site, path) == [site |-> site, path |-> path]
Syndicated == Url("wire", "x")
LinksOf(f) == {Syndicated, Url(FeedName(f), "a"), Url(FeedName(f), "b")}

TitleHot == {"apple", "announce", "new", "ai", "chip"}
TitlePlain == {"chip"}
\* The title an entry with a given link carries.
TitleOf(link) == IF link.path = "b" THEN TitlePlain ELSE TitleHot
\* The dates an entry with a given link may carry: the syndicated article is
\* the one that feeds also list with a date outside the window.
DatesOf(link) == IF link = Syndicated THEN {DateOld, DateFresh} ELSE {DateFresh}

FeedEntries(f) ==
    UNION {{[title |-> TitleOf(u), link |-> u, date |-> d] : d \in DatesOf(u)} :
              u \in LinksOf(f)}

\* The documents a feed may answer with: at most MaxEntries entries, no link
\* repeated within one document.
FeedDocs(f) == {doc \in SeqsUpTo(FeedEntries(f), MaxEntries) :
                    \A i, j \in DOMAIN doc : i # j => doc[i].link # doc[j].link}

\* A long document of feed f: n entries of its own site, all inside the
\* window; the entries of a document that alone fills the enrichment cap
\* but for one carry the plain title, those of a shorter one the hot title.
LongDoc(f, n) ==
    [i \in 1..n |-> [title |-> IF n < EnrichCap - 1 THEN TitleHot ELSE TitlePlain,
                     link |-> Url(FeedName(f), ToString(i)),
                     date |-> DateFresh]]

\* The outcomes of the request of feed f in a run over long documents: the
\* first feed answers with one entry less than the enrichment cap, the
\* others with one or two entries, and any request may fail.
LongResponses(f) ==
    {[kind |-> "ok", entries |-> LongDoc(f, n)] :
        n \in IF f = 1 THEN {EnrichCap - 1} ELSE {1, 2}}
    \cup {[kind |-> "error", entries |-> <<>>]}

\* The outcomes of the request of feed f: a 200 response with a document, a
\* timeout, a network error, a response with another status.
Responses(f) ==
    IF call.docs = "long" THEN LongResponses(f)
    ELSE {[kind |-> "ok", entries |-> doc] : doc \in FeedDocs(f)}
         \cup {[kind |-> k, entries |-> <<>>] : k \in {"timeout", "error", "status"}}

NoResponse == [kind |-> "none", entries |-> <<>>]
\* The operation invoked on the program: NewsAgent.run, or one function directly.
RunCall == [op |-> "run", docs |-> "short"]
\* NewsAgent.run on a day the feeds answer with long documents.
LongRunCall == [op |-> "run", docs |-> "long"]

\* ------------------------------------------------------------ NewsAgent.run

InitAgent ==
    /\ top_n \in (MaxTopN - 1)..MaxTopN
    /\ callback \in {"none", "given"}
    /\ clock = RunClock
    /\ stage = "START"
    /\ task = [f \in Feeds |-> "unstarted"]
    /\ started = [f \in Feeds |-> 0]
    /\ response = [f \in Feeds |-> NoResponse]
    /\ task_result = [f \in Feeds |-> <<>>]
    /\ raw_articles = <<>>
    /\ today_articles = <<>>
    /\ summaries = <<>>
    /\ top_articles = <<>>
    /\ source_counts = <<>>
    /\ cursor = 0
    /\ result = <<>>
    /\ raised = FALSE
    /\ cb_calls = 0

Running == call.op = "run" /\ ~raised /\ stage # "DONE"

\* `if progress_callback: progress_callback(...)`, k times in a row, none raising.
Reported(k) == cb_calls' = IF callback = "none" THEN cb_calls ELSE cb_calls + k

\* One of the next k invocations of the callback raises: the exception
\* leaves run, which has no handler.
CallbackRaises(k) ==
    /\ callback = "given"
    /\ raised' = TRUE
    /\ \E j \in 1..k : cb_calls' = cb_calls + j

\* news_agent.py:111-114 with fetcher.py:150-151: the first report, then
\* fetch_all_feeds creates one fetch_feed task per feed and awaits them all.
BeginFetch ==
    /\ Running /\ stage = "START"
    /\ \/ /\ Reported(1)
          /\ stage' = "FETCHING"
          /\ task' = [f \in Feeds |-> "running"]
          /\ started' = [f \in Feeds |-> started[f] + 1]
          /\ UNCHANGED raised
       \/ /\ CallbackRaises(1)
          /\ UNCHANGED <<stage, task, started>>
    /\ UNCHANGED <<top_n, callback, clock, response, task_result, raw_articles,
                   today_articles, summaries, top_articles, source_counts,
                   cursor, result, call_vars>>

\* fetcher.py:44-68: the task of feed f runs to its end with the outcome resp
\* of its request.
FetchFeed(f) ==
    /\ call.op \in {"run", "fetch_all_feeds"} /\ ~raised /\ task[f] = "running"
    /\ \E resp \in Responses(f) :
          /\ response' = [response EXCEPT ![f] = resp]
          /\ task_result' = [task_result EXCEPT ![f] = FetchFeedResult(resp, f, clock)]
    /\ task' = [task EXCEPT ![f] = "done"]
    /\ finished' = IF call.op = "fetch_all_feeds" THEN Append(finished, f) ELSE finished
    /\ UNCHANGED <<top_n, callback, clock, stage, started, raw_articles,
                   today_articles, summaries, top_articles, source_counts,
                   cursor, result, raised, cb_calls,
                   call, ret, returned, passed, same_list, batch_vars>>
\* A variant of GatherDone that stops waiting at the first finished task.
GatherFirstDone == \E f \in Feeds : task[f] = "done"

\* fetcher.py:151, await asyncio.gather(*tasks): every task has finished.
GatherDone == \A f \in Feeds : task[f] = "done"

\* A variant of FetchAllFeedsResult in which one failed request fails the
\* whole gather, and nothing is returned.
FetchAllFeedsAllOrNothing ==
    IF \E f \in Feeds : response[f].kind # "ok" THEN <<>>
    ELSE Concat([f \in Feeds |-> task_result[f]])

\* A variant of FetchAllFeedsResult that joins the lists in the order the
\* tasks ended.
FetchAllFeedsAsFinished == Concat([k \in DOMAIN finished |-> task_result[finished[k]]])

\* fetcher.py:151-156: gather returns when every task is done; the lists are
\* joined in feed order.
FetchAllFeedsResult == Concat([f \in Feeds |-> task_result[f]])

\* news_agent.py:114-117: fetch_all_feeds returns, the second report.
EndFetch ==
    /\ Running /\ stage = "FETCHING"
    /\ GatherDone
    /\ raw_articles' = FetchAllFeedsResult
    /\ \/ /\ Reported(1)
          /\ stage' = "FILTERING"
          /\ UNCHANGED raised
       \/ /\ CallbackRaises(1)
          /\ UNCHANGED stage
    /\ UNCHANGED <<top_n, callback, clock, task, started, response, task_result,
                   today_articles, summaries, top_articles, source_counts,
                   cursor, result, call_vars>>

\* A variant of FilteredArticles in which a run with a callback skips the
\* deduplication.
FilteredUnlessReporting ==
    IF callback = "given" THEN FilterTodayArticles(raw_articles, WindowDays, clock)
    ELSE Deduplicate(FilterTodayArticles(raw_articles, WindowDays, clock))

\* A variant of FilteredArticles that deduplicates before it filters.
FilteredAfterDeduplicate ==
    FilterTodayArticles(Deduplicate(raw_articles), WindowDays, clock)

\* news_agent.py:120-121
FilteredArticles == Deduplicate(FilterTodayArticles(raw_articles, WindowDays, clock))
\* A variant of EmptySummary that counts the filtered articles as fetched.
EmptySummaryCountsFiltered ==
    [articles |-> <<>>, total_fetched |-> 0, total_parsed |-> 0, sources_used |-> <<>>]
\* A variant of NothingLeft that returns early only when nothing was fetched.
NothingFetched(articles) == raw_articles = <<>>

\* news_agent.py:126, `if not today_articles`
NothingLeft(articles) == articles = <<>>

\* news_agent.py:127-133
EmptySummary ==
    [articles |-> <<>>, total_fetched |-> Len(raw_articles), total_parsed |-> 0,
     sources_used |-> <<>>]

\* news_agent.py:120-139: filter and deduplicate, report; return the empty
\* summary when nothing is left, else report and start the enrichment loop.
FilterStep ==
    /\ Running /\ stage = "FILTERING"
    /\ today_articles' = FilteredArticles
    /\ \/ /\ NothingLeft(today_articles')
          /\ Reported(1)
          /\ result' = EmptySummary
          /\ stage' = "DONE"
          /\ UNCHANGED raised
       \/ /\ ~NothingLeft(today_articles')
          /\ Reported(2)
          /\ stage' = "ENRICHING"
          /\ UNCHANGED <<result, raised>>
       \/ /\ CallbackRaises(IF NothingLeft(today_articles') THEN 1 ELSE 2)
          /\ UNCHANGED <<stage, result>>
    /\ UNCHANGED <<top_n, callback, clock, task, started, response, task_result,
                   raw_articles, summaries, top_articles, source_counts, cursor,
                   call_vars>>

\* A variant of ToEnrich without the cap.
ToEnrichAll == today_articles

\* news_agent.py:140, today_articles[:100]
ToEnrich == SubSeq(today_articles, 1, Min(EnrichCap, Len(today_articles)))

\* news_agent.py:140-151: one turn of the enrichment loop.
EnrichOne ==
    /\ Running /\ stage = "ENRICHING"
    /\ Len(summaries) < Len(ToEnrich)
    /\ summaries' = Append(summaries, EnrichArticle(ToEnrich[Len(summaries) + 1]))
    /\ UNCHANGED <<top_n, callback, clock, stage, task, started, response,
                   task_result, raw_articles, today_articles, top_articles,
                   source_counts, cursor, result, raised, cb_calls, call_vars>>

\* news_agent.py:153-165: the loop is over; two reports, the sort in place,
\* and the selection loop starts.
EndEnrich ==
    /\ Running /\ stage = "ENRICHING"
    /\ Len(summaries) = Len(ToEnrich)
    /\ \/ /\ Reported(2)
          /\ summaries' = SortByImportance(summaries)
          /\ cursor' = 1
          /\ stage' = "RANKING"
          /\ UNCHANGED raised
       \/ /\ CallbackRaises(2)
          /\ UNCHANGED <<summaries, cursor, stage>>
    /\ UNCHANGED <<top_n, callback, clock, task, started, response, task_result,
                   raw_articles, today_articles, top_articles, source_counts,
                   result, call_vars>>

\* A variant of RunSourceLimit with a ceiling of top_n.
RunSourceLimitTopN == MaxTopN

\* news_agent.py:172, the ceiling of the selection written in run.
RunSourceLimit == RunMaxPerSource

\* news_agent.py:167-174: one turn of the selection loop.
SelectOne ==
    /\ Running /\ stage = "RANKING"
    /\ cursor <= Len(summaries)
    /\ Len(top_articles) < top_n
    /\ LET article == summaries[cursor] IN
       IF UnderSourceLimit(source_counts, article.source, RunSourceLimit)
       THEN /\ top_articles' = Append(top_articles, article)
            /\ source_counts' = Increment(source_counts, article.source)
       ELSE UNCHANGED <<top_articles, source_counts>>
    /\ cursor' = cursor + 1
    /\ UNCHANGED <<top_n, callback, clock, stage, task, started, response,
                   task_result, raw_articles, today_articles, summaries, result,
                   raised, cb_calls, call_vars>>

\* list(set(...)): the orders a set of names may be listed in.
ListingsOf(S) == {l \in [1..Cardinality(S) -> S] : Range(l) = S}

\* A variant of SourcesUsed that takes the sources of every enriched article.
SourcesEnriched == {a.source : a \in Range(summaries)}

\* news_agent.py:177, set(a.source for a in top_articles)
SourcesUsed == {a.source : a \in Range(top_articles)}

\* news_agent.py:168-169 and 176-185: the loop ends, by its break or by the
\* end of summaries; the DailySummary is returned.
Finish ==
    /\ Running /\ stage = "RANKING"
    /\ cursor > Len(summaries) \/ Len(top_articles) >= top_n
    /\ \E sources_used \in ListingsOf(SourcesUsed) :
          result' = [articles |-> top_articles,
                     total_fetched |-> Len(raw_articles),
                     total_parsed |-> Len(summaries),
                     sources_used |-> sources_used]
    /\ stage' = "DONE"
    /\ UNCHANGED <<top_n, callback, clock, task, started, response, task_result,
                   raw_articles, today_articles, summaries, top_articles,
                   source_counts, cursor, raised, cb_calls, call_vars>>

\* ------------------------------------------------------------ direct calls

\* The arguments of direct calls.  Raw articles of one source whose dates lie
\* around the cutoffs of the two window lengths; summaries of two sources
\* and two categories.
CallDays == {1, 7}
CallDates == {RunClock - 7 * HoursPerDay - 1, RunClock - 7 * HoursPerDay,
              RunClock - HoursPerDay, RunClock}
CallArticles == [title : {TitlePlain}, url : {Syndicated, Url("wire", "y")}, source : {FeedName(1)},
                 published : CallDates]
CallSummaries == [title : {TitlePlain}, url : {Syndicated},
                  source : {FeedName(1), FeedName(2)},
                  published : {RunClock - 30},
                  importance_score : {BaseImportance, BaseImportance + KeywordBoost,
                                      BaseImportance + 4 * KeywordBoost},
                  category : {"Tech", "AI/ML"}]
ScoredSummaries == [title : {TitlePlain}, url : {Syndicated},
                    source : {FeedName(1), FeedName(2)},
                    published : {RunClock, RunClock - 30, NoDate},
                    importance_score : {-BaseImportance, 0, BaseImportance, MaxImportance},
                    category : {"Tech", "AI/ML"}]
\* The articles already selected: what the penalty looks at.
SelectedSummaries == [title : {TitlePlain}, url : {Syndicated},
                      source : {FeedName(1), FeedName(2)},
                      published : {RunClock - 30},
                      importance_score : {BaseImportance},
                      category : {"Tech", "AI/ML"}]
\* Articles to rank: two ages and two importance scores.
RankedSummaries == [title : {TitlePlain}, url : {Syndicated},
                    source : {FeedName(1), FeedName(2)},
                    published : {RunClock, RunClock - 30},
                    importance_score : {BaseImportance, MaxImportance},
                    category : {"Tech"}]
\* Rankers: the default weights, no diversity weight, diversity weight only,
\* a diversity weight above the others.
Rankers == {DefaultRanker,
            [recency_weight |-> 2, importance_weight |-> 6, diversity_weight |-> 0],
            [recency_weight |-> 0, importance_weight |-> 0, diversity_weight |-> 2],
            [recency_weight |-> 5, importance_weight |-> 5, diversity_weight |-> 10]}
\* Titles made of important keywords only: every choice among the first
\* twelve keywords, and all twelve with every choice among the other four.
KeywordTitles ==
    LET head == {ImportantKeywords[i] : i \in 1..12}
        tail == Range(ImportantKeywords) \ head
    IN (SUBSET head) \cup {head \cup t : t \in SUBSET tail}

DeduplicateCalls ==
    {[op |-> "deduplicate", articles |-> a] : a \in SeqsUpTo(CallArticles, MaxLen)}
FilterCalls ==
    {[op |-> "filter_today_articles", articles |-> a, days |-> d, clock |-> RunClock] :
        a \in SeqsUpTo(CallArticles, MaxLen), d \in CallDays}
DiversityCalls ==
    {[op |-> "ensure_source_diversity", summaries |-> p, n |-> n, max_per_source |-> m] :
        p \in SeqsUpTo(CallSummaries, MaxLen), n \in 0..MaxLen, m \in 1..2}
TopNCalls ==
    {[op |-> "get_top_n", ranker |-> r, summaries |-> p, n |-> n, clock |-> RunClock] :
        r \in {DefaultRanker}, p \in SeqsUpTo(CallSummaries, MaxLen), n \in 0..MaxLen}
FinalScoreCalls ==
    {[op |-> "calculate_final_score", ranker |-> r, article |-> b, selected |-> sel,
      clock |-> RunClock] :
        r \in Rankers, b \in ScoredSummaries, sel \in SeqsUpTo(SelectedSummaries, MaxLen)}
ImportanceCalls ==
    {[op |-> "_calculate_importance", title |-> t] : t \in KeywordTitles}

\* The arguments of summarize: a parsed article with no, a short or a long
\* content and summary, and an outcome of client.generate.
ParsedArticles == [title : {TitlePlain}, url : {Syndicated}, source : {FeedName(1)},
                   published : {RunClock - 30},
                   content : {EmptyText, Text("body", 150), Text("body", 5000)},
                   summary : {EmptyText, Text("raw", 80), Text("raw", 1500)}]
KeyPointItems(k) == [i \in 1..k |-> Text("point", 30)]
SummaryMembers == {Missing, JsonString(EmptyText), JsonString(Text("ai", 60))}
KeyPointsMembers == {Missing, JsonNull} \cup
                    {JsonList(KeyPointItems(k)) : k \in {0, MaxLen, MaxLen + 1}}
ScoreMembers == {Missing, JsonNull, JsonString(Text("high", 4)),
                 JsonNumeral(7 * One + One \div 2)} \cup
                {JsonNumber(v) : v \in {0 - One, 0, 7 * One + One \div 2,
                                        MaxImportance, MaxImportance + One}}
CategoryMembers == {Missing, JsonString(Text("AI/ML", 5))}
ResponseTexts ==
    [shape : {"object", "broken"}, summary : SummaryMembers,
     key_points : KeyPointsMembers, importance_score : ScoreMembers,
     category : CategoryMembers]
    \cup [shape : {"scalar"}, summary : {Missing}, key_points : {Missing},
          importance_score : {Missing}, category : {Missing}]
NoText == [shape |-> "none", summary |-> Missing, key_points |-> Missing,
           importance_score |-> Missing, category |-> Missing]
GenerateOutcomes ==
    {[kind |-> k, text |-> NoText] : k \in {"absent", "error"}}
    \cup {[kind |-> "text", text |-> t] : t \in ResponseTexts}
SummarizeCalls ==
    {[op |-> "summarize", article |-> a, outcome |-> o] :
        a \in ParsedArticles, o \in GenerateOutcomes}
\* The pieces of a summary text: blank, of 20 characters, of 21, longer.
PieceLengths == {0, MinSentenceLength, MinSentenceLength + 1, 3 * MinSentenceLength}
ExtractKeyPointsCalls ==
    {[op |-> "_extract_key_points", pieces |-> p] :
        p \in SeqsUpTo(PieceLengths, MaxLen + 2)}
\* The published values of calculate_recency_score: a datetime or a string
\* with seconds for every hour from 2 hours ahead of the clock to MaxHoursAgo
\* behind it, a date alone, a date with hours and minutes, other text.
PublishedValues ==
    [kind : {"datetime", "seconds"}, time : (RunClock - MaxHoursAgo)..(RunClock + 2)]
    \cup [kind : {"date", "minutes", "other"},
          time : {RunClock - 8, RunClock - 30, RunClock - MaxHoursAgo}]
\* The entries of a document given to fetch_feed directly: with and without
\* a title, a link, a date.
CallEntries == [title : {NoTitle, TitlePlain},
                link : {NoLink, Syndicated, Url("wire", "y")},
                date : {NoDate, DateFresh}]
FetchFeedCalls ==
    {[op |-> "fetch_feed", feed |-> f, response |-> resp, clock |-> RunClock] :
        f \in {1},
        resp \in {[kind |-> "ok", entries |-> doc] : doc \in SeqsUpTo(CallEntries, MaxLen)}
                 \cup {[kind |-> k, entries |-> <<>>] : k \in {"timeout", "error", "status"}}}
\* The arguments of rank_articles: k summaries whose scores alternate between
\* two values, n, and a response of up to MaxLen indices, each below, within
\* or at the end of the range, repeated or not.
RankSummaries(k, low) ==
    [i \in 1..k |->
        [title |-> TitlePlain, url |-> Syndicated, source |-> FeedName(1),
         published |-> RunClock - 30,
         importance_score |-> IF (i % 2 = 1) = low THEN BaseImportance
                                                   ELSE MaxImportance,
         category |-> "Tech"]]
IndexLists == SeqsUpTo({0 - 1, 0, 1, MaxLen}, MaxLen)
RankOutcomes ==
    {[kind |-> k, text |-> [shape |-> "none", top_indices |-> Missing]] :
        k \in {"absent", "error"}}
    \cup {[kind |-> "text", text |-> [shape |-> "broken", top_indices |-> Missing]]}
    \cup {[kind |-> "text", text |-> [shape |-> "object", top_indices |-> m]] :
             m \in {Missing, JsonNull} \cup {JsonList(l) : l \in IndexLists}}
RankArticlesCalls ==
    {[op |-> "rank_articles", summaries |-> p, n |-> n, outcome |-> o] :
        p \in {RankSummaries(k, low) : k \in 0..(MaxLen + 1), low \in BOOLEAN},
        n \in 0..MaxLen, o \in RankOutcomes}
RecencyCalls ==
    {[op |-> "calculate_recency_score", published |-> p, clock |-> RunClock] :
        p \in PublishedValues}
RankCalls ==
    {[op |-> "rank", ranker |-> r, summaries |-> p, clock |-> RunClock] :
        r \in {DefaultRanker}, p \in SeqsUpTo(RankedSummaries, MaxLen)}

\* The list object a direct call is given, if it is given one.
ListPassed(c) ==
    IF c.op \in {"deduplicate", "filter_today_articles"} THEN c.articles
    ELSE IF c.op \in {"rank", "get_top_n", "ensure_source_diversity"} THEN c.summaries
    ELSE <<>>

\* No batch operation is under way.
NoBatch ==
    /\ finished = <<>>
    /\ semaphore = [value |-> 0, waiters |-> <<>>]
    /\ batch_tasks = <<>>
    /\ batch_results = <<>>

\* The agent of a direct call is constructed and never run.
InitCalls ==
    /\ InitAgent /\ top_n = MaxTopN /\ callback = "none"
    /\ \/ call \in DeduplicateCalls
       \/ call \in FilterCalls
       \/ call \in DiversityCalls
       \/ call \in TopNCalls
       \/ call \in FinalScoreCalls
       \/ call \in ImportanceCalls
       \/ call \in SummarizeCalls
       \/ call \in ExtractKeyPointsCalls
       \/ call \in RankCalls
       \/ call \in RecencyCalls
       \/ call \in FetchFeedCalls
       \/ call \in RankArticlesCalls
    /\ ret = <<>> /\ returned = FALSE
    /\ passed = ListPassed(call) /\ same_list = FALSE
    /\ NoBatch

\* The function returns a value it built: a list made by a comprehension or
\* by append on an empty list, a number, a new object.  No function called
\* directly assigns to, appends to, pops from or sorts its list parameter.
Return(value) ==
    /\ ~returned
    /\ ret' = value
    /\ returned' = TRUE
    /\ same_list' = FALSE
    /\ UNCHANGED <<call, passed, agent_vars, batch_vars, finished>>

\* The function returns its list parameter itself.
ReturnPassed(value) ==
    /\ ~returned
    /\ ret' = value
    /\ returned' = TRUE
    /\ same_list' = TRUE
    /\ UNCHANGED <<call, passed, agent_vars, batch_vars, finished>>

CallDeduplicate ==
    /\ call.op = "deduplicate"
    /\ Return(Deduplicate(call.articles))

CallFilterTodayArticles ==
    /\ call.op = "filter_today_articles"
    /\ Return(FilterTodayArticles(call.articles, call.days, call.clock))

\* The list returned, each article named by its position in the argument.
CallEnsureSourceDiversity ==
    /\ call.op = "ensure_source_diversity"
    /\ Return(EnsureSourceDiversityIdx(call.summaries, call.n, call.max_per_source))

\* The list returned, each article named by its position in the argument:
\* `return summaries` at ranker.py:109, `return selected` at 128, where
\* remaining is the copy list(summaries).
CallGetTopN ==
    /\ call.op = "get_top_n"
    /\ IF Len(call.summaries) <= call.n
       THEN ReturnPassed(GetTopNIdx(call.ranker, call.summaries, call.n, call.clock))
       ELSE Return(GetTopNIdx(call.ranker, call.summaries, call.n, call.clock))

CallRankArticles ==
    /\ call.op = "rank_articles"
    /\ Return(RankArticles(call.summaries, call.n, call.outcome))

\* fetch_feed with the outcome of its request given.
CallFetchFeed ==
    /\ call.op = "fetch_feed"
    /\ Return(FetchFeedResult(call.response, call.feed, call.clock))

CallCalculateRecencyScore ==
    /\ call.op = "calculate_recency_score"
    /\ Return(CalculateRecencyScore(ParsePublished(call.published), call.clock))

\* The list returned, each article named by its position in the argument.
CallRank ==
    /\ call.op = "rank"
    /\ Return(RankIdx(call.ranker, call.summaries, call.clock))

CallCalculateFinalScore ==
    /\ call.op = "calculate_final_score"
    /\ Return(CalculateFinalScore(call.ranker, call.article, call.selected, call.clock))

CallCalculateImportance ==
    /\ call.op = "_calculate_importance"
    /\ Return(CalculateImportance(call.title))

CallSummarize ==
    /\ call.op = "summarize"
    /\ Return(Summarize(call.article, call.outcome))

CallExtractKeyPoints ==
    /\ call.op = "_extract_key_points"
    /\ Return(ExtractKeyPoints(call.pieces))

\* fetch_all_feeds called directly, over short documents.
FetchAllCall == [op |-> "fetch_all_feeds", docs |-> "short"]

InitFetchAll ==
    /\ InitAgent /\ top_n = MaxTopN /\ callback = "none"
    /\ call = FetchAllCall /\ ret = <<>> /\ returned = FALSE
    /\ passed = <<>> /\ same_list = FALSE
    /\ NoBatch

\* fetcher.py:149-151: one fetch_feed task per feed.
FetchAllBegins ==
    /\ call.op = "fetch_all_feeds" /\ ~returned
    /\ \A f \in Feeds : task[f] = "unstarted"
    /\ task' = [f \in Feeds |-> "running"]
    /\ started' = [f \in Feeds |-> started[f] + 1]
    /\ UNCHANGED <<top_n, callback, clock, stage, response, task_result, raw_articles,
                   today_articles, summaries, top_articles, source_counts,
                   cursor, result, raised, cb_calls, call_vars>>

\* fetcher.py:151-156: gather returns and the joined list is returned.
FetchAllReturns ==
    /\ call.op = "fetch_all_feeds"
    /\ GatherDone
    /\ Return(FetchAllFeedsResult)

NextFetchAll ==
    \/ FetchAllBegins
    \/ \E f \in Feeds : FetchFeed(f)
    \/ FetchAllReturns

\* -------------------------------------------------------- batch operations

\* The i-th article of a batch: a ParsedArticle for batch_summarize, the
\* keyword arguments of parse for batch_parse.
BatchArticle(op, i) ==
    [title |-> TitlePlain, url |-> Url("wire", ToString(i)), source |-> FeedName(1),
     published |-> RunClock - 30, summary |-> Text("raw", 80),
     content |-> IF op = "batch_summarize" THEN Text("body", 150) ELSE EmptyText]

\* The limits a batch is called with: one at a time, and the default.
Limits(op) ==
    IF op = "batch_summarize" THEN {1, MaxConcurrentSummarize}
    ELSE {2, MaxConcurrentParse}

BatchOps == {"batch_summarize", "batch_parse"}
BatchCallsOf(op) ==
    {[op |-> op, articles |-> [i \in 1..n |-> BatchArticle(op, i)], max_concurrent |-> m] :
        n \in 0..MaxBatch, m \in Limits(op)}
BatchCalls == BatchCallsOf("batch_summarize") \cup BatchCallsOf("batch_parse")

\* The outcomes of client.generate within a batch: no text, and a text with
\* a JSON object.
BatchOutcomes ==
    {[kind |-> "absent", text |-> NoText],
     [kind |-> "text",
      text |-> [shape |-> "object", summary |-> JsonString(Text("ai", 60)),
                key_points |-> Missing, importance_score |-> JsonNumber(MaxImportance),
                category |-> Missing]]}

\* What _fetch_and_extract returns: the text of the page, or "" when the
\* request or the extraction failed (article_parser.py:72-136).
Extractions == {Text("page", 400), EmptyText}

\* article_parser.py:35-68, ArticleParser.parse, for what _fetch_and_extract
\* returned: the content falls back to the summary.
Parse(data, extracted) == [data EXCEPT !.content = OrElse(extracted, data.summary)]

\* summarizer.py:173 and article_parser.py:142, asyncio.Semaphore(max_concurrent);
\* gather makes one task per article.
InitBatch ==
    /\ InitAgent /\ top_n = MaxTopN /\ callback = "none"
    /\ call \in BatchCalls
    /\ ret = <<>> /\ returned = FALSE
    /\ passed = call.articles /\ same_list = FALSE
    /\ finished = <<>>
    /\ semaphore = [value |-> call.max_concurrent, waiters |-> <<>>]
    /\ batch_tasks = [i \in DOMAIN call.articles |-> "unstarted"]
    /\ batch_results = [i \in DOMAIN call.articles |-> <<>>]

InBatch == call.op \in BatchOps /\ ~returned

\* A variant of SlotFree without the semaphore.
SlotAlwaysFree == TRUE

\* Semaphore.acquire finds the semaphore unlocked.
SlotFree == semaphore.value > 0

\* `async with semaphore` of task i, the tasks starting in the order gather
\* made them: the task takes a slot if one is free, and else joins the
\* queue of waiters; with a free slot and tasks waiting (a slot was
\* released and the waiter woken has not run yet) it does either, as the
\* version of asyncio has it.
StartTask(i) ==
    /\ InBatch /\ batch_tasks[i] = "unstarted"
    /\ \A j \in 1..(i - 1) : batch_tasks[j] # "unstarted"
    /\ \/ /\ SlotFree
          /\ semaphore' = [semaphore EXCEPT !.value = @ - 1]
          /\ batch_tasks' = [batch_tasks EXCEPT ![i] = "working"]
       \/ /\ ~SlotFree \/ semaphore.waiters # <<>>
          /\ semaphore' = [semaphore EXCEPT !.waiters = Append(@, i)]
          /\ batch_tasks' = [batch_tasks EXCEPT ![i] = "waiting"]
    /\ UNCHANGED <<call, ret, returned, passed, same_list, batch_results, agent_vars, finished>>

\* The first waiter, woken by a release, takes the slot.
WakeWaiter ==
    /\ InBatch /\ semaphore.waiters # <<>> /\ SlotFree
    /\ semaphore' = [value |-> semaphore.value - 1, waiters |-> Tail(semaphore.waiters)]
    /\ batch_tasks' = [batch_tasks EXCEPT ![Head(semaphore.waiters)] = "working"]
    /\ UNCHANGED <<call, ret, returned, passed, same_list, batch_results, agent_vars, finished>>

\* summarizer.py:177-178: summarize of task i returns and the task sleeps
\* for the delay, inside `async with`.
SummarizeReturns(i) ==
    /\ InBatch /\ call.op = "batch_summarize" /\ batch_tasks[i] = "working"
    /\ \E outcome \in BatchOutcomes :
          batch_results' = [batch_results EXCEPT ![i] = Summarize(call.articles[i], outcome)]
    /\ batch_tasks' = [batch_tasks EXCEPT ![i] = "sleeping"]
    /\ UNCHANGED <<call, ret, returned, passed, same_list, semaphore, agent_vars, finished>>

\* summarizer.py:178-179: the delay of task i is over; leaving `async with`
\* releases the slot.
SleepEnds(i) ==
    /\ InBatch /\ batch_tasks[i] = "sleeping"
    /\ batch_tasks' = [batch_tasks EXCEPT ![i] = "done"]
    /\ semaphore' = [semaphore EXCEPT !.value = @ + 1]
    /\ UNCHANGED <<call, ret, returned, passed, same_list, batch_results, agent_vars, finished>>

\* article_parser.py:144-146: parse of task i returns; leaving `async with`
\* releases the slot.
ParseReturns(i) ==
    /\ InBatch /\ call.op = "batch_parse" /\ batch_tasks[i] = "working"
    /\ \E extracted \in Extractions :
          batch_results' = [batch_results EXCEPT ![i] = Parse(call.articles[i], extracted)]
    /\ batch_tasks' = [batch_tasks EXCEPT ![i] = "done"]
    /\ semaphore' = [semaphore EXCEPT !.value = @ + 1]
    /\ UNCHANGED <<call, ret, returned, passed, same_list, agent_vars, finished>>

\* asyncio.gather: the results of the tasks in the order of the tasks;
\* batch_parse leaves out None, which parse never returns.
Gathered == SelectSeq(batch_results, LAMBDA r : r # <<>>)

\* summarizer.py:182-184 and article_parser.py:148-152: every task is done,
\* gather returns and the batch returns the list.
BatchReturns ==
    /\ InBatch
    /\ \A i \in DOMAIN batch_tasks : batch_tasks[i] = "done"
    /\ ret' = Gathered
    /\ returned' = TRUE
    /\ UNCHANGED <<call, passed, same_list, batch_vars, agent_vars, finished>>

NextBatch ==
    \/ \E i \in 1..MaxBatch : i \in DOMAIN batch_tasks /\ StartTask(i)
    \/ WakeWaiter
    \/ \E i \in 1..MaxBatch : i \in DOMAIN batch_tasks /\ SummarizeReturns(i)
    \/ \E i \in 1..MaxBatch : i \in DOMAIN batch_tasks /\ SleepEnds(i)
    \/ \E i \in 1..MaxBatch : i \in DOMAIN batch_tasks /\ ParseReturns(i)
    \/ BatchReturns

\* ---------------------------------------------------------- specifications

InitRun ==
    /\ InitAgent
    /\ call = RunCall /\ ret = <<>> /\ returned = FALSE
    /\ passed = <<>> /\ same_list = FALSE
    /\ NoBatch

NextRun ==
    \/ BeginFetch
    \/ \E f \in Feeds : FetchFeed(f)
    \/ EndFetch
    \/ FilterStep
    \/ EnrichOne
    \/ EndEnrich
    \/ SelectOne
    \/ Finish

NextCalls ==
    \/ CallDeduplicate
    \/ CallFilterTodayArticles
    \/ CallEnsureSourceDiversity
    \/ CallGetTopN
    \/ CallCalculateFinalScore
    \/ CallCalculateImportance
    \/ CallSummarize
    \/ CallExtractKeyPoints
    \/ CallRank
    \/ CallCalculateRecencyScore
    \/ CallFetchFeed
    \/ CallRankArticles

\* One run of the agent.
SpecRun == InitRun /\ [][NextRun]_vars

InitLongRun ==
    /\ InitAgent
    /\ call = LongRunCall /\ ret = <<>> /\ returned = FALSE
    /\ passed = <<>> /\ same_list = FALSE
    /\ NoBatch

\* One run of the agent over long documents.
SpecLongRun == InitLongRun /\ [][NextRun]_vars

\* One run of the agent on an event loop that keeps running: every fetch
\* task started by gather ends, by its response, an error or the 15 s timeout
\* of its request (fetcher.py:47-68), and the coroutine of run, which awaits
\* nothing else, takes its next step whenever it has one.
SpecRunFair ==
    /\ InitRun /\ [][NextRun]_vars
    /\ \A f \in Feeds : WF_vars(FetchFeed(f))
    /\ WF_vars(BeginFetch) /\ WF_vars(EndFetch) /\ WF_vars(FilterStep)
    /\ WF_vars(EnrichOne) /\ WF_vars(EndEnrich)
    /\ WF_vars(SelectOne) /\ WF_vars(Finish)

\* One direct call of a function of the fetcher, the ranker or the enricher.
SpecCalls == InitCalls /\ [][NextCalls]_vars

\* One batch operation on an event loop that keeps running: every task is
\* started, every call of summarize and of parse returns (the request of parse
\* has a 30 s timeout), every sleep ends, a woken waiter runs.
SpecBatch ==
    /\ InitBatch /\ [][NextBatch]_vars
    /\ \A i \in 1..MaxBatch :
          /\ WF_vars(i \in DOMAIN batch_tasks /\ StartTask(i))
          /\ WF_vars(i \in DOMAIN batch_tasks /\ SummarizeReturns(i))
          /\ WF_vars(i \in DOMAIN batch_tasks /\ SleepEnds(i))
          /\ WF_vars(i \in DOMAIN batch_tasks /\ ParseReturns(i))
    /\ WF_vars(WakeWaiter) /\ WF_vars(BatchReturns)

\* One direct call of fetch_all_feeds.
SpecFetchAll == InitFetchAll /\ [][NextFetchAll]_vars

\* Any of these.
Init == InitRun \/ InitCalls \/ InitBatch \/ InitFetchAll
Next == NextRun \/ NextCalls \/ NextBatch \/ NextFetchAll
Spec == Init /\ [][Next]_vars

\* ------------------------------------------------------------------ claims

Returned(op) == returned /\ call.op = op

\* C1: deduplicate returns exactly one article per distinct url of its
\* input; that article is the first occurrence of its url, and the output
\* is the subsequence of the input made of these first occurrences.
C1_DeduplicateFirstOccurrences ==
    Returned("deduplicate") =>
        LET a == call.articles
            first == {i \in DOMAIN a : \A j \in 1..(i - 1) : a[j].url # a[i].url}
        IN /\ Len(ret) = Cardinality({a[i].url : i \in DOMAIN a})
           /\ \A k, l \in DOMAIN ret : k # l => ret[k].url # ret[l].url
           /\ ret = Pick(a, Ascending(first))

\* A call whose input repeats a url with a different article behind it, and
\* holds a further url between the two occurrences.
C1_Witness ==
    /\ Returned("deduplicate")
    /\ Len(call.articles) = 3
    /\ call.articles[1].url = call.articles[3].url
    /\ call.articles[1] # call.articles[3]
    /\ call.articles[2].url # call.articles[1].url
    /\ ret = <<call.articles[1], call.articles[2]>>

\* C2: filter_today_articles keeps an article if and only if
\* published >= now - days, the article published exactly at now - days
\* included, and the kept articles stay in input order.
C2_FilterWindowInclusive ==
    Returned("filter_today_articles") =>
        LET a == call.articles
            cutoff == call.clock - call.days * HoursPerDay
            kept == {i \in DOMAIN a : a[i].published >= cutoff}
        IN ret = Pick(a, Ascending(kept))

\* A call with an article exactly at the cutoff, kept, behind an older
\* article, dropped.
C2_Witness ==
    /\ Returned("filter_today_articles")
    /\ Len(call.articles) >= 2
    /\ call.articles[1].published < call.clock - call.days * HoursPerDay
    /\ call.articles[2].published = call.clock - call.days * HoursPerDay
    /\ Len(ret) >= 1
    /\ ret[1] = call.articles[2]

\* C10: _calculate_importance returns a value within [0, 10] for every title,
\* whatever number of the keywords it contains.
C10_ImportanceWithinRange ==
    Returned("_calculate_importance") => (0 <= ret /\ ret <= 10 * One)

\* A title with more than ten of the keywords: the sum passes 10 and the cap
\* acts.
C10_Witness ==
    /\ Returned("_calculate_importance")
    /\ Cardinality({i \in DOMAIN ImportantKeywords :
                       TitleContains(call.title, ImportantKeywords[i])}) > 10
    /\ ret = 10 * One

\* The number of articles of a source in a list of articles.
CountSource(articles, source) ==
    Cardinality({k \in DOMAIN articles : articles[k].source = source})

Failed(f) == task[f] = "done" /\ response[f].kind # "ok"
Succeeded(f) == task[f] = "done" /\ response[f].kind = "ok"

\* C3: ceiling-based selection never returns more than max_per_source
\* articles of one source: neither ensure_source_diversity, for every n and
\* ceiling, nor the selection of run, whose ceiling is 2, in the articles
\* selected so far and in the DailySummary returned.
C3_SourceCeiling ==
    /\ Returned("ensure_source_diversity") =>
          /\ \A k, l \in DOMAIN ret : k # l => ret[k] # ret[l]
          /\ \A src \in {a.source : a \in Range(call.summaries)} :
                CountSource(Pick(call.summaries, ret), src) <= call.max_per_source
    /\ call.op = "run" =>
          /\ \A f \in Feeds : CountSource(top_articles, FeedName(f)) <= 2
          /\ result # <<>> =>
                \A f \in Feeds : CountSource(result.articles, FeedName(f)) <= 2

\* A run in which the three articles ranked first all come from one feed and
\* the fourth from another: two of the three are returned, the third place
\* goes to the other feed.
C3_Witness ==
    /\ call.op = "run" /\ stage = "DONE" /\ top_n = 3
    /\ Len(summaries) >= 4
    /\ \A k \in 1..3 : summaries[k].source = FeedName(1)
    /\ summaries[3].importance_score >= summaries[4].importance_score
    /\ summaries[4].source = FeedName(2)
    /\ result.articles = <<summaries[1], summaries[2], summaries[4]>>

\* C4: a failed request (timeout, network error, status other than 200)
\* raises nothing, yields no article for its feed, and leaves the articles
\* of every feed that succeeded in the result of fetch_all_feeds.
C4_FailureIsolation ==
    call.op = "run" =>
        /\ raised => callback = "given"
        /\ \A f \in Feeds :
              /\ Failed(f) => task_result[f] = <<>>
              /\ Succeeded(f) =>
                    /\ Len(task_result[f]) = Len(response[f].entries)
                    /\ \A i \in DOMAIN task_result[f] :
                          /\ task_result[f][i].url = response[f].entries[i].link
                          /\ task_result[f][i].source = FeedName(f)
        /\ StageNo(stage) >= StageNo("FILTERING") =>
              /\ Len(raw_articles) =
                    Len(Concat([f \in Feeds |->
                                  IF Succeeded(f) THEN response[f].entries ELSE <<>>]))
              /\ \A f \in Feeds :
                    Succeeded(f) =>
                        \A i \in DOMAIN response[f].entries :
                            \E k \in DOMAIN raw_articles :
                                /\ raw_articles[k].url = response[f].entries[i].link
                                /\ raw_articles[k].source = FeedName(f)

\* The first feed's request failed, the second answered three entries, and
\* all three are in raw_articles.
C4_Witness ==
    /\ call.op = "run" /\ stage = "FILTERING" /\ ~raised
    /\ Failed(1)
    /\ Succeeded(2) /\ Len(response[2].entries) = 3
    /\ Len(raw_articles) = 3

\* C5: exactly one fetch task is started per feed, and the filtering step
\* and every later step start only after every fetch task has completed,
\* with or without success.
C5_FetchBarrier ==
    call.op = "run" =>
        /\ \A f \in Feeds : started[f] = IF stage = "START" THEN 0 ELSE 1
        /\ StageNo(stage) >= StageNo("FILTERING") =>
              \A f \in Feeds : task[f] = "done"

\* The run is past the barrier; the second feed's task had failed and the
\* first's had succeeded.
C5_Witness ==
    /\ call.op = "run" /\ stage = "ENRICHING"
    /\ Succeeded(1) /\ Failed(2)
    /\ \A f \in Feeds : started[f] = 1

\* C6: the stage of a run only moves forward, one stage at a time, along
\* START, FETCHING, FILTERING, ENRICHING, RANKING, DONE; the only step that
\* skips stages is FILTERING to DONE, and leaving FILTERING goes to DONE
\* exactly when no article remains after filtering and deduplication.
C6_StageStep ==
    \/ stage' = stage
    \/ /\ stage # "FILTERING"
       /\ StageNo(stage') = StageNo(stage) + 1
    \/ /\ stage = "FILTERING"
       /\ today_articles' = Deduplicate(FilterTodayArticles(raw_articles, 7, clock))
       /\ IF today_articles' = <<>> THEN stage' = "DONE" ELSE stage' = "ENRICHING"

C6_StageOrder == [][C6_StageStep]_vars

\* A run that went through every stage, its six reports made.
C6_Witness ==
    /\ call.op = "run" /\ stage = "DONE"
    /\ callback = "given" /\ cb_calls = 6
    /\ result.articles # <<>>

\* C7: when no article remains after the filter and deduplication, run
\* returns a DailySummary with no articles, total_parsed 0, no sources_used
\* and total_fetched the number of raw articles fetched; nothing was
\* enriched or ranked.
C7_EmptySummary ==
    (call.op = "run" /\ stage = "DONE" /\ today_articles = <<>>) =>
        /\ result.articles = <<>>
        /\ result.total_parsed = 0
        /\ result.sources_used = <<>>
        /\ result.total_fetched = Len(Concat([f \in Feeds |-> task_result[f]]))
        /\ summaries = <<>> /\ top_articles = <<>> /\ cursor = 0

\* Two articles were fetched, both outside the window.
C7_Witness ==
    /\ call.op = "run" /\ stage = "DONE"
    /\ Len(raw_articles) = 2 /\ today_articles = <<>>
    /\ result.total_fetched = 2

\* A call of calculate_final_score for an article B with one article A of
\* the same source already selected.
ScoredAfterSameSource ==
    /\ Returned("calculate_final_score")
    /\ Len(call.selected) = 1
    /\ call.selected[1].source = call.article.source

\* The score of the call's article with nothing selected.
ScoreAlone == CalculateFinalScore(call.ranker, call.article, <<>>, call.clock)

\* C8, as claimed: for every ranker and every two articles A and B of the
\* same source, the final score of B with A selected is strictly lower than
\* the final score of B with nothing selected.
C8_StrictlyLowerForEveryRanker ==
    ScoredAfterSameSource => ret < ScoreAlone

\* C8, amended: with a positive diversity weight the final score of B with A
\* selected is strictly lower than with nothing selected whenever the latter
\* is positive, and both are 0 otherwise; with diversity weight 0 the two
\* scores are equal.
C8_StrictlyLowerWhenPositive ==
    ScoredAfterSameSource =>
        /\ (call.ranker.diversity_weight > 0 /\ ScoreAlone > 0) => ret < ScoreAlone
        /\ (call.ranker.diversity_weight > 0 /\ ScoreAlone = 0) => ret = 0
        /\ call.ranker.diversity_weight = 0 => ret = ScoreAlone

\* The default ranker, A of the same source and another category: the score
\* of B drops by 0.2 * 2.0 and stays positive.
C8_Witness ==
    /\ ScoredAfterSameSource
    /\ call.ranker = DefaultRanker
    /\ call.selected[1].category # call.article.category
    /\ ret > 0
    /\ ret = ScoreAlone - 2 * SourcePenalty

\* C9: get_top_n returns min(n, |pool|) distinct articles of the pool, and
\* the k-th returned article has the maximal final score, computed against
\* the k-1 articles returned before it, among the articles not returned
\* before it.
C9_GreedySelection ==
    Returned("get_top_n") =>
        LET pool == call.summaries
            before(k) == SubSeq(ret, 1, k - 1)
            score(j, k) == CalculateFinalScore(call.ranker, pool[j],
                                               Pick(pool, before(k)), call.clock)
        IN /\ Len(ret) = Min(call.n, Len(pool))
           /\ \A k \in DOMAIN ret : ret[k] \in DOMAIN pool
           /\ \A k, l \in DOMAIN ret : k # l => ret[k] # ret[l]
           /\ \A k \in DOMAIN ret :
                 \A j \in DOMAIN pool \ Range(before(k)) :
                     score(ret[k], k) >= score(j, k)

\* C11: every enriched article has an importance_score within [0, 10] and at
\* most 3 key points, on every enrichment path: summarize, also when the
\* response supplies the score and the key points, and the heuristics
\* _calculate_importance and _extract_key_points.
C11_EnrichedWithinRange ==
    /\ Returned("summarize") =>
          /\ 0 <= ret.importance_score /\ ret.importance_score <= 10 * One
          /\ Len(ret.key_points) <= 3
    /\ Returned("_extract_key_points") => Len(ret) <= 3
    /\ Returned("_calculate_importance") => ret \in 0..(10 * One)

\* C12: calculate_final_score returns
\* max(0, importance_weight*importance + recency_weight*recency
\*        - diversity_weight*penalty), the penalty being 2.0 per selected
\* article of the same source plus 1.0 per selected article of the same
\* category; it is never negative; the default weights are 0.6, 0.2, 0.2.
C12_FinalScoreFormula ==
    /\ DefaultRanker.importance_weight = 6
    /\ DefaultRanker.recency_weight = 2
    /\ DefaultRanker.diversity_weight = 2
    /\ Returned("calculate_final_score") =>
          LET b == call.article
              sel == call.selected
              penalty ==
                  2 * One * Cardinality({k \in DOMAIN sel : sel[k].source = b.source})
                  + One * Cardinality({k \in DOMAIN sel : sel[k].category = b.category})
              sum == call.ranker.importance_weight * b.importance_score
                     + call.ranker.recency_weight
                           * CalculateRecencyScore(b.published, call.clock)
                     - call.ranker.diversity_weight * penalty
          IN /\ ret >= 0
             /\ ret = IF sum > 0 THEN sum ELSE 0

\* A fresh article of importance 5.0 and three selected articles of its
\* source and category under the weights 0.5, 0.5, 1.0: the sum
\* 2.5 + 5.0 - 9.0 is negative and the score is 0.
C12_Witness ==
    /\ Returned("calculate_final_score")
    /\ Len(call.selected) = 3
    /\ \A k \in 1..3 : /\ call.selected[k].source = call.article.source
                       /\ call.selected[k].category = call.article.category
    /\ call.article.importance_score = BaseImportance
    /\ call.article.published = RunClock
    /\ call.ranker.diversity_weight = 10
    /\ ret = 0

\* The urls of the first min(100, k) articles of today_articles.
UrlsWithinCap ==
    {today_articles[i].url : i \in 1..Min(100, Len(today_articles))}

\* C13: run enriches exactly the first min(100, k) articles of the filtered
\* and deduplicated list of length k, in list order, and reports
\* total_parsed = min(100, k); an article beyond position 100 is never
\* enriched and never selected.
C13_EnrichmentCap ==
    call.op = "run" =>
        /\ Len(summaries) <= Min(100, Len(today_articles))
        /\ stage = "ENRICHING" =>
              \A i \in DOMAIN summaries : summaries[i].url = today_articles[i].url
        /\ stage \in {"RANKING", "DONE"} /\ today_articles # <<>> =>
              /\ Len(summaries) = Min(100, Len(today_articles))
              /\ {summaries[i].url : i \in DOMAIN summaries} = UrlsWithinCap
        /\ \A i \in DOMAIN top_articles : top_articles[i].url \in UrlsWithinCap
        /\ result # <<>> =>
              /\ result.total_parsed = Min(100, Len(today_articles))
              /\ \A i \in DOMAIN result.articles :
                    result.articles[i].url \in UrlsWithinCap

\* 101 articles are left after the filter; the last one carries the hot
\* title and the first 99 the plain one: 100 are enriched, and the 101st is
\* not among the articles returned.
C13_Witness ==
    /\ call.op = "run" /\ stage = "DONE"
    /\ Len(today_articles) = 101
    /\ today_articles[101].title = TitleHot
    /\ today_articles[1].title = TitlePlain
    /\ result.total_parsed = 100
    /\ \A i \in DOMAIN result.articles :
          result.articles[i].url # today_articles[101].url

\* C14: in every DailySummary run returns, sources_used holds no name twice,
\* every name in it is the source of a returned article, and the source of
\* every returned article is in it.
C14_SourcesUsedIsTheSet ==
    (call.op = "run" /\ result # <<>>) =>
        /\ \A k, l \in DOMAIN result.sources_used :
              k # l => result.sources_used[k] # result.sources_used[l]
        /\ \A k \in DOMAIN result.sources_used :
              \E i \in DOMAIN result.articles :
                  result.articles[i].source = result.sources_used[k]
        /\ \A i \in DOMAIN result.articles :
              \E k \in DOMAIN result.sources_used :
                  result.sources_used[k] = result.articles[i].source

\* Three articles of two sources are returned, and articles of the other
\* source were enriched too: the two names are listed once each, the second
\* feed's first.
C14_Witness ==
    /\ call.op = "run" /\ stage = "DONE"
    /\ Len(result.articles) = 3
    /\ result.articles[1].source = result.articles[2].source
    /\ result.sources_used = <<FeedName(2), FeedName(1)>>

\* What a run makes of the articles its fetch tasks returned, as a function
\* of these articles, top_n and the clock alone: the articles left by the
\* filter and the deduplication, their summaries, the articles selected.
ExpectedToday ==
    Deduplicate(FilterTodayArticles(Concat([f \in Feeds |-> task_result[f]]), 7, clock))
ExpectedSummaries ==
    [i \in 1..Min(100, Len(ExpectedToday)) |-> EnrichArticle(ExpectedToday[i])]
ExpectedArticles == EnsureSourceDiversity(ExpectedSummaries, top_n, 2)

\* C15: with a progress callback that does not raise, run goes through the
\* stages and returns the DailySummary that the fetched articles, top_n and
\* the clock determine, the same as without a callback: the enrichment and
\* ranking stages are entered exactly when an article is left, and the
\* summary returned is the one of these articles.
C15_CallbackIndependence ==
    (call.op = "run" /\ ~raised) =>
        /\ stage \in {"ENRICHING", "RANKING"} => ExpectedToday # <<>>
        /\ stage = "DONE" =>
              /\ (summaries # <<>>) = (ExpectedToday # <<>>)
              /\ result.articles = ExpectedArticles
              /\ result.total_fetched = Len(Concat([f \in Feeds |-> task_result[f]]))
              /\ result.total_parsed =
                    IF ExpectedToday = <<>> THEN 0 ELSE Len(ExpectedSummaries)
              /\ Range(result.sources_used) = {a.source : a \in Range(ExpectedArticles)}

\* A run with a callback, invoked six times, that returned two articles; one
\* url had been fetched from both feeds.
C15_Witness ==
    /\ call.op = "run" /\ stage = "DONE" /\ ~raised
    /\ callback = "given" /\ cb_calls = 6
    /\ top_n = 2 /\ Len(result.articles) = 2
    /\ Len(today_articles) < Len(raw_articles)
    /\ \E i, j \in DOMAIN raw_articles : i # j /\ raw_articles[i].url = raw_articles[j].url
                                          /\ raw_articles[i].published = DateFresh
                                          /\ raw_articles[j].published = DateFresh

\* C16: a progress callback that raises at one of its invocations does not
\* fail run: no exception leaves run, and the DailySummary returned is the
\* one returned without a callback.
C16_RaisingCallbackHarmless ==
    call.op = "run" =>
        /\ ~raised
        /\ stage = "DONE" => result.articles = ExpectedArticles

\* C17: whatever client.generate yields, summarize returns an ArticleSummary
\* for the article; when the response is absent, failed or malformed (not a
\* JSON object), the summary text is the article's raw summary, where it has
\* one, and the score and the category are the defaults 5.0 and "Tech".
C17_FallbackOnFailure ==
    Returned("summarize") =>
        /\ ret.title = call.article.title
        /\ ret.url = call.article.url
        /\ ret.source = call.article.source
        /\ (call.outcome.kind # "text" \/ call.outcome.text.shape # "object") =>
              /\ call.article.summary.len > 0 => ret.summary = call.article.summary
              /\ ret.importance_score = 5 * One
              /\ ret.category = "Tech"

\* C18: after filter_today_articles, deduplicate, rank, get_top_n or
\* ensure_source_diversity returns, the list passed in is as it was before
\* the call, and the list returned is not the list object passed in.
C18_NewListReturned ==
    (returned /\ call.op \in {"filter_today_articles", "deduplicate", "rank",
                              "get_top_n", "ensure_source_diversity"}) =>
        /\ passed = ListPassed(call)
        /\ ~same_list

\* C19: when every fetch task ends, every run reaches DONE, where it has
\* returned a DailySummary; the enrichment loop takes no more turns than there
\* are filtered articles and the selection loop no more than there are
\* enriched articles.
C19_RunReachesDone ==
    /\ <>(stage = "DONE" /\ result # <<>>)
    /\ [](Len(summaries) <= Len(today_articles) /\ cursor <= Len(summaries) + 1)

\* The position in the filtered list of the article a summary was made of.
FilteredPos(a) == CHOOSE i \in DOMAIN today_articles : today_articles[i].url = a.url
\* a comes before b in importance order: a higher score, or the same score
\* and an earlier place in the filtered list.
Precedes(a, b) ==
    \/ a.importance_score > b.importance_score
    \/ /\ a.importance_score = b.importance_score
       /\ FilteredPos(a) < FilteredPos(b)
\* The returned articles that come before the enriched article e.
AdmittedBefore(e) == {k \in DOMAIN result.articles : Precedes(result.articles[k], e)}
\* The sum over the feeds up to f of min(2, number of enriched articles).
RECURSIVE AdmissibleUpTo(_)
AdmissibleUpTo(f) ==
    IF f = 0 THEN 0
    ELSE Min(2, CountSource(summaries, FeedName(f))) + AdmissibleUpTo(f - 1)

\* C20: the articles run returns are in non-increasing importance order,
\* ties in filtered-list order; an enriched article is left out only if
\* top_n articles, or 2 articles of its source, were admitted before it; the
\* number returned is min(top_n, sum over sources of min(2, enriched articles
\* of the source)).
C20_SelectionOrderAndCount ==
    (call.op = "run" /\ stage = "DONE") =>
        /\ \A k, l \in DOMAIN result.articles :
              k < l => Precedes(result.articles[k], result.articles[l])
        /\ \A e \in Range(summaries) :
              e \notin Range(result.articles) =>
                 \/ Cardinality(AdmittedBefore(e)) >= top_n
                 \/ Cardinality({k \in AdmittedBefore(e) :
                                    result.articles[k].source = e.source}) >= 2
        /\ Len(result.articles) = Min(top_n, AdmissibleUpTo(NumFeeds))

\* A run with top_n 3 that enriched four articles: two of one feed with the
\* same score are returned first, the third of that feed is left out for its
\* source, and the article of the other feed, of the same score as the one
\* left out and after it in the filtered list, is returned third.
C20_Witness ==
    /\ call.op = "run" /\ stage = "DONE" /\ top_n = 3
    /\ Len(summaries) = 4 /\ Len(result.articles) = 3
    /\ result.articles[1].importance_score = result.articles[2].importance_score
    /\ \E e \in Range(summaries) :
          /\ e \notin Range(result.articles)
          /\ e.source = result.articles[1].source
          /\ e.source = result.articles[2].source
          /\ e.importance_score = result.articles[3].importance_score
          /\ FilteredPos(e) < FilteredPos(result.articles[3])

\* The hours between the time a published value names and the clock; a date
\* alone names its midnight.
ElapsedHours(value, now) ==
    IF value.kind = "date" THEN now - (value.time - (value.time % 24))
    ELSE now - value.time
Unparsable(value) == value.kind \in {"minutes", "other"}

\* C21: calculate_recency_score returns a value within [1, 10]: for a
\* publication time, 10 up to 1 hour ago, 9 up to 6, 7 up to 12, 5 up to 24,
\* then max(1, 5 - (hours - 24)/24), and no more than for any publication
\* time less long ago; for a value that cannot be parsed, 5.
C21_RecencyScore ==
    Returned("calculate_recency_score") =>
        LET hours == ElapsedHours(call.published, call.clock) IN
        /\ ret >= One /\ ret <= 10 * One
        /\ Unparsable(call.published) => ret = 5 * One
        /\ ~Unparsable(call.published) =>
              /\ hours <= 1 => ret = 10 * One
              /\ (hours > 1 /\ hours <= 6) => ret = 9 * One
              /\ (hours > 6 /\ hours <= 12) => ret = 7 * One
              /\ (hours > 12 /\ hours <= 24) => ret = 5 * One
              /\ hours > 24 => 24 * ret = Max(24 * One, 24 * 5 * One - (hours - 24) * One)
              /\ \A later \in PublishedValues :
                    (~Unparsable(later)
                     /\ ElapsedHours(later, call.clock) <= hours) =>
                        ret <= CalculateRecencyScore(ParsePublished(later), call.clock)

\* An article published 30 hours before the clock scored 4.75.
C21_Witness ==
    /\ Returned("calculate_recency_score")
    /\ call.published = [kind |-> "seconds", time |-> call.clock - 30]
    /\ 4 * ret = 19 * One

\* The positions of the entries of a document that have a title and a link.
WellFormed(entries) ==
    SelectSeq([i \in DOMAIN entries |-> i],
              LAMBDA i : entries[i].title # {} /\ entries[i].link.site # "")

\* C22: every RawArticle fetch_feed returns has a title and a url; of a
\* document, exactly the entries that have both are returned, in their
\* order, whatever entries without a title or a link stand among them, and
\* fetch_feed returns.
C22_MalformedEntriesDropped ==
    Returned("fetch_feed") =>
        /\ \A k \in DOMAIN ret : ret[k].title # {} /\ ret[k].url.site # ""
        /\ LET kept == WellFormed(call.response.entries) IN
           /\ Len(ret) = Len(kept)
           /\ \A k \in DOMAIN ret :
                 /\ ret[k].title = call.response.entries[kept[k]].title
                 /\ ret[k].url = call.response.entries[kept[k]].link
                 /\ ret[k].source = FeedName(call.feed)

\* A document of three entries, the first without a link, the second without
\* a title: the third alone is returned.
C22_Witness ==
    /\ Returned("fetch_feed") /\ call.response.kind = "ok"
    /\ Len(call.response.entries) = 3
    /\ call.response.entries[1].link = NoLink
    /\ call.response.entries[1].title # NoTitle
    /\ call.response.entries[2].title = NoTitle
    /\ call.response.entries[2].link # NoLink
    /\ Len(ret) = 1 /\ ret[1].url = call.response.entries[3].link

\* The tasks of a batch that hold a slot of the semaphore: in summarize or
\* parse, or in the delay that follows summarize.
InProgress == {i \in DOMAIN batch_tasks : batch_tasks[i] \in {"working", "sleeping"}}

\* C23: in a batch operation no more than max_concurrent tasks are ever in
\* summarize and its delay, or in parse, at once; the batch returns in the
\* end, and what it returns is one result per article, in input order.
C23_BoundedConcurrency ==
    /\ [](call.op \in BatchOps =>
            /\ Cardinality(InProgress) <= call.max_concurrent
            /\ returned =>
                  /\ Len(ret) = Len(call.articles)
                  /\ \A i \in DOMAIN ret : ret[i].url = call.articles[i].url)
    /\ (call.op \in BatchOps => <>returned)

\* batch_summarize with the default limit: three tasks in progress, one of
\* them in its delay, and another task waiting for a slot.
C23_Witness ==
    /\ call.op = "batch_summarize" /\ call.max_concurrent = 3
    /\ Cardinality(InProgress) = 3
    /\ \E i \in InProgress : batch_tasks[i] = "sleeping"
    /\ semaphore.waiters # <<>>

\* C24: for every list of summaries, every n and every response,
\* rank_articles returns min(n, len(summaries)) indices, pairwise distinct,
\* each within 0..len(summaries)-1.
C24_RankArticlesIndices ==
    Returned("rank_articles") =>
        /\ Len(ret) = Min(call.n, Len(call.summaries))
        /\ \A k \in DOMAIN ret : 0 <= ret[k] /\ ret[k] < Len(call.summaries)
        /\ \A k, l \in DOMAIN ret : k # l => ret[k] # ret[l]

\* The articles of the entries of the document feed f answered with, in the
\* order of the entries; none when its request failed.
ArticlesOfFeed(f) ==
    IF response[f].kind # "ok" THEN <<>>
    ELSE [i \in DOMAIN response[f].entries |->
             [title |-> response[f].entries[i].title,
              url |-> response[f].entries[i].link,
              source |-> FeedName(f),
              published |-> response[f].entries[i].date]]
\* The lists of the feeds up to f, one after the other.
RECURSIVE InRegistryOrder(_)
InRegistryOrder(f) ==
    IF f = 0 THEN <<>> ELSE InRegistryOrder(f - 1) \o ArticlesOfFeed(f)

\* C25: in whatever order the fetch tasks end, fetch_all_feeds returns the
\* lists of the feeds joined in registry order, each in the order of the
\* entries of its feed: the result depends on the responses alone.
C25_FetchOrderIndependent ==
    Returned("fetch_all_feeds") => ret = InRegistryOrder(NumFeeds)

\* The task of the second feed ended before the task of the first, both
\* with articles: the articles of the first feed are returned first.
C25_Witness ==
    /\ Returned("fetch_all_feeds")
    /\ Len(finished) >= 2 /\ finished[1] = 2 /\ finished[2] = 1
    /\ Len(task_result[1]) = 2 /\ Len(task_result[2]) = 1
    /\ Len(ret) >= 3 /\ ret[1].source = FeedName(1) /\ ret[3].source = FeedName(2)

\* The enriched articles of a run in the order they were enriched in.
EnrichedInOrder == [i \in DOMAIN ToEnrich |-> EnrichArticle(ToEnrich[i])]
\* s is the beginning of t.
IsPrefix(s, t) == Len(s) <= Len(t) /\ s = SubSeq(t, 1, Len(s))

\* C26: the selection written in run is the ranker's: all along the
\* selection loop the articles admitted so far are the beginning of
\* ensure_source_diversity(summaries, n=top_n, max_per_source=2), and the
\* articles run returns are that list, element by element.
C26_InlineSelectionIsRankers ==
    (call.op = "run" /\ stage \in {"RANKING", "DONE"} /\ summaries # <<>>) =>
        LET diverse == EnsureSourceDiversity(EnrichedInOrder, top_n, 2) IN
        /\ IsPrefix(top_articles, diverse)
        /\ stage = "DONE" => result.articles = diverse

\* Within the selection loop of a run with top_n 3: two articles of one
\* source admitted, the third of that source passed over, the fourth still
\* to come, which the ranker's selection has third.
C26_Witness ==
    /\ call.op = "run" /\ stage = "RANKING" /\ top_n = 3
    /\ cursor = 4 /\ Len(summaries) >= 4 /\ Len(top_articles) = 2
    /\ summaries[3].source = summaries[1].source
    /\ summaries[4].source # summaries[1].source
    /\ EnsureSourceDiversity(EnrichedInOrder, top_n, 2)[3] = summaries[4]

\* The positions of the fetched articles published within the 7-day window.
InWindow == {i \in DOMAIN raw_articles : raw_articles[i].published >= clock - 7 * 24}
\* The first position within the window of the url u.
FirstInWindow(u) ==
    CHOOSE i \in InWindow :
        /\ raw_articles[i].url = u
        /\ \A j \in InWindow : raw_articles[j].url = u => i <= j

\* C27: once run has filtered and deduplicated, every url with a fetched
\* article inside the 7-day window is in the filtered list exactly once, with
\* its first article inside the window, whatever article of that url outside
\* the window was fetched before it; no other url is in the list.
C27_FilterBeforeDeduplicate ==
    (call.op = "run" /\ stage \in {"ENRICHING", "RANKING", "DONE"}) =>
        /\ \A u \in {raw_articles[i].url : i \in InWindow} :
              /\ Cardinality({k \in DOMAIN today_articles : today_articles[k].url = u}) = 1
              /\ raw_articles[FirstInWindow(u)] \in Range(today_articles)
        /\ \A k \in DOMAIN today_articles :
              today_articles[k].url \in {raw_articles[i].url : i \in InWindow}

\* A run that fetched a url first with a date outside the window, then with
\* a date inside it: the filtered list holds the second article.
C27_Witness ==
    /\ call.op = "run" /\ stage = "ENRICHING"
    /\ \E i, j \in DOMAIN raw_articles :
          /\ i < j
          /\ raw_articles[i].url = raw_articles[j].url
          /\ i \notin InWindow /\ j \in InWindow
          /\ raw_articles[j] \in Range(today_articles)
          /\ \E k \in DOMAIN raw_articles : k < i /\ k \in InWindow

====
